---------------------------- MODULE Spec2Model ----------------------------
(***************************************************************************)
(* A model of s3cleanup.py: the selection of deployments to delete         *)
(* (getDeployments), the size lookup (getPrefixSize), the deletion loop    *)
(* (deleteDeployments) and the script body that wires them together.       *)
(*                                                                         *)
(* An S3 key is modelled as a sequence of one-character strings, so that   *)
(* Python's `in` (substring), str.split('/')[0] and the Prefix= filter of  *)
(* the bucket are computed character by character.  A bucket is the        *)
(* sequence of its objects in listing order; an object is a record         *)
(* [key, last_modified, size].                                             *)
(***************************************************************************)
EXTENDS Integers, Sequences, FiniteSets

(***************************************************************************)
(* Bounds of the model.                                                    *)
(***************************************************************************)
MaxObjects == 3      \* objects in the initial bucket
MaxTime    == 3      \* last_modified values are 1..MaxTime
MaxKeep    == 3      \* --keep-count ranges over -2..MaxKeep

(***************************************************************************)
(* The keys the initial bucket draws from, in the order S3 lists them      *)
(* (byte order: "/" < "a" < "b" < "i" < "x").  They cover a key that       *)
(* starts with "/", two objects of one deployment (a/i, a/x), a deployment *)
(* whose name extends another's (ab/ and a/), and a key without "/".       *)
(***************************************************************************)
AllKeys ==
  << <<"/", "i">>,
     <<"a", "/", "i">>,
     <<"a", "/", "x">>,
     <<"a", "b", "/", "i">>,
     <<"i">> >>

\* The size in bytes of the object stored under AllKeys[n].
ObjectSizes == <<1, 2, 4, 8, 16>>

\* The values of --object-name: the default-like marker name, a name that
\* matches two objects of one deployment, and a name that matches nothing.
ObjectNames == { <<"i">>, <<"a">>, <<"z">> }

KeepCounts == (-2)..MaxKeep

Procs == {1, 2}

(***************************************************************************)
(* String primitives.                                                      *)
(***************************************************************************)

\* Python: objectName in key
Contains(sub, key) ==
  \E s \in 0..(Len(key) - Len(sub)) : SubSeq(key, s + 1, s + Len(sub)) = sub

\* S3: the key starts with Prefix
StartsWith(key, prefix) ==
  /\ Len(prefix) <= Len(key)
  /\ SubSeq(key, 1, Len(prefix)) = prefix

\* Python: str(key).split('/')[0]
tlObjectPrefix(key) ==
  LET slashes == { j \in 1..Len(key) : key[j] = "/" }
      first   == IF slashes = {}
                 THEN Len(key) + 1
                 ELSE CHOOSE j \in slashes : \A m \in slashes : j <= m
  IN  SubSeq(key, 1, first - 1)

(***************************************************************************)
(* getDeployments                                                          *)
(***************************************************************************)

getLastModified(bucketObject) == bucketObject.last_modified

\* Python's sorted(..., key=getLastModified, reverse=False) is stable: an
\* object goes after every object whose key is not greater than its own.
RECURSIVE sortedDescending(_)
sortedDescending(objs) ==
  IF objs = <<>> THEN <<>>
  ELSE LET rest == sortedDescending(SubSeq(objs, 1, Len(objs) - 1))
           x    == objs[Len(objs)]
           n    == Cardinality({ j \in 1..Len(rest) :
                                   getLastModified(rest[j]) >= getLastModified(x) })
       IN  SubSeq(rest, 1, n) \o <<x>> \o SubSeq(rest, n + 1, Len(rest))

RECURSIVE sorted(_)
sorted(objs) ==
  IF objs = <<>> THEN <<>>
  ELSE LET rest == sorted(SubSeq(objs, 1, Len(objs) - 1))
           x    == objs[Len(objs)]
           n    == Cardinality({ j \in 1..Len(rest) :
                                   getLastModified(rest[j]) <= getLastModified(x) })
       IN  SubSeq(rest, 1, n) \o <<x>> \o SubSeq(rest, n + 1, Len(rest))

\* Lines 58-60: the objects whose key contains objectName, in sorted order.
filterDeployments(sortedDeployments, objectName) ==
  LET Matches(obj) == Contains(objectName, obj.key)
  IN  SelectSeq(sortedDeployments, Matches)

\* Line 66, with i the 0-based index of enumerate().
isTargetBelow(i, keepCount) == i < keepCount
isTargetAbove(i, keepCount) == i > keepCount
isTarget(i, keepCount) == i >= keepCount

\* Lines 65-67.
targetOf(filteredDeployments, keepCount) ==
  LET IsTargetIndex(j) == isTarget(j - 1, keepCount)
      picked == SelectSeq([j \in 1..Len(filteredDeployments) |-> j], IsTargetIndex)
  IN  [j \in 1..Len(picked) |-> filteredDeployments[picked[j]]]

\* The result is [raised, targetDeployments]: raised is the exception of
\* line 63, and then nothing is returned.
getDeploymentsNoBail(objects, objectName, keepCount) ==
  [raised |-> FALSE,
   targetDeployments |-> targetOf(filterDeployments(sorted(objects), objectName),
                                  keepCount)]

getDeployments(objects, objectName, keepCount) ==
  LET sortedDeployments   == sorted(objects)
      filteredDeployments == filterDeployments(sortedDeployments, objectName)
  IN  IF filteredDeployments = <<>>
      THEN [raised |-> TRUE, targetDeployments |-> <<>>]
      ELSE [raised |-> FALSE,
            targetDeployments |-> targetOf(filteredDeployments, keepCount)]

(***************************************************************************)
(* getPrefixSize and the bulk delete                                       *)
(***************************************************************************)

\* bucket.objects.filter(Prefix=prefix)
objectsFilter(objects, prefix) ==
  LET Under(obj) == StartsWith(obj.key, prefix)
  IN  SelectSeq(objects, Under)

RECURSIVE sumSizes(_)
sumSizes(objs) ==
  IF objs = <<>> THEN 0 ELSE objs[1].size + sumSizes(Tail(objs))

getPrefixSize(objects, prefix) == sumSizes(objectsFilter(objects, prefix))

\* bucket.objects.filter(Prefix=prefix).delete(): what is left of the bucket.
deleteUnderPrefix(objects, prefix) ==
  LET Kept(obj) == ~StartsWith(obj.key, prefix)
  IN  SelectSeq(objects, Kept)

\* Lines 94-97: after the size lookup, skip the delete iff dryRun.
deleteFollowsAlways(dryRun) == TRUE
deleteFollows(dryRun) == ~dryRun

(***************************************************************************)
(* deleteDeployments as a function of its inputs: the bucket it leaves and *)
(* the figures it prints.                                                  *)
(***************************************************************************)
RECURSIVE deleteLoop(_, _, _, _, _)
deleteLoop(objects, deployments, dryRun, n, totalSize) ==
  IF n > Len(deployments)
  THEN [bucket |-> objects, prefixCount |-> Len(deployments), totalSize |-> totalSize]
  ELSE LET prefix     == tlObjectPrefix(deployments[n].key)
           prefixSize == getPrefixSize(objects, prefix)
       IN  deleteLoop(IF deleteFollows(dryRun)
                      THEN deleteUnderPrefix(objects, prefix)
                      ELSE objects,
                      deployments, dryRun, n + 1, totalSize + prefixSize)

deleteDeployments(objects, deployments, dryRun) ==
  deleteLoop(objects, deployments, dryRun, 1, 0)

\* The whole script on a bucket nobody else writes to: the bucket it leaves.
mainLeaves(objects, objectName, keepCount, dryRun) ==
  LET got == getDeployments(objects, objectName, keepCount)
  IN  IF keepCount < -1 \/ got.raised
      THEN objects
      ELSE deleteDeployments(objects, got.targetDeployments, dryRun).bucket

(***************************************************************************)
(* Several invocations of the script, none a dry run, on one bucket: the   *)
(* buckets they can leave, over all interleavings of their storage calls   *)
(* that decide it (the listing of line 54 and the deletes of line 97; the  *)
(* size lookups of line 90 write nothing).  runs[p] is where invocation p  *)
(* is: before its listing ("list"), in the loop at marker n ("loop"), or   *)
(* ended ("end": the loop is over, or getDeployments raised).              *)
(***************************************************************************)
runAfterListing(objects, objectName, keepCount) ==
  LET got == getDeployments(objects, objectName, keepCount)
  IN  [stage |-> IF got.raised \/ got.targetDeployments = <<>> THEN "end" ELSE "loop",
       deployments |-> got.targetDeployments,
       n |-> 1]

runAfterDelete(run) ==
  [run EXCEPT !.n = @ + 1,
              !.stage = IF run.n + 1 > Len(run.deployments) THEN "end" ELSE "loop"]

\* One storage call of invocation p in configuration c = [objects, runs]:
\* its listing and selection, or the delete of its next marker.
configAfter(c, p, objectName, keepCount) ==
  IF c.runs[p].stage = "list"
  THEN [c EXCEPT !.runs[p] = runAfterListing(c.objects, objectName, keepCount)]
  ELSE [objects |-> deleteUnderPrefix(
                      c.objects,
                      tlObjectPrefix(c.runs[p].deployments[c.runs[p].n].key)),
        runs    |-> [c.runs EXCEPT ![p] = runAfterDelete(c.runs[p])]]

\* The buckets left by the configurations reachable from those of configs,
\* whichever invocation makes the next call.
RECURSIVE concurrentLeaves(_, _, _)
concurrentLeaves(configs, objectName, keepCount) ==
  LET Live(c) == { p \in DOMAIN c.runs : c.runs[p].stage # "end" }
      ended   == { c \in configs : Live(c) = {} }
      next    == UNION { { configAfter(c, p, objectName, keepCount) : p \in Live(c) }
                         : c \in configs \ ended }
  IN  { c.objects : c \in ended } \cup
        (IF next = {} THEN {} ELSE concurrentLeaves(next, objectName, keepCount))

\* Every bucket that the invocations of Procs, started together with the
\* same --object-name and --keep-count, can leave.
concurrentMainLeaves(objects, objectName, keepCount) ==
  IF keepCount < -1
  THEN {objects}
  ELSE concurrentLeaves(
         { [objects |-> objects,
            runs    |-> [p \in Procs |-> [stage |-> "list", deployments |-> <<>>, n |-> 1]]] },
         objectName, keepCount)

(***************************************************************************)
(* State.  Each invocation of the script is a process p.                   *)
(***************************************************************************)
VARIABLES
  bucket,       \* the objects in the bucket, in listing order
  bucket0,      \* the bucket when the invocations started
  args,         \* args[p]: [object_name, keep_count, dry_run]
  pc,           \* pc[p]: where invocation p is
  listing,      \* listing[p]: what bucket.objects.all() returned to p
  deployments,  \* deployments[p]: the result of getDeployments
  idx,          \* idx[p]: the position in deployments[p] of the loop
  totalSize,    \* totalSize[p]
  trace,        \* trace[p]: the storage calls of the loop, in order
  report        \* report[p]: the figures of the final print

vars == <<bucket, bucket0, args, pc, listing, deployments, idx, totalSize,
          trace, report>>

NoReport == [printed |-> FALSE, prefixCount |-> 0, totalSize |-> 0, dryRunBanner |-> FALSE]

\* The listings of at most MaxObjects of the keys, each with a last_modified.
KeySets == { S \in SUBSET (1..Len(AllKeys)) : Cardinality(S) <= MaxObjects }

RECURSIVE ascending(_)
ascending(S) ==
  IF S = {} THEN <<>>
  ELSE LET m == CHOOSE x \in S : \A y \in S : x <= y
       IN  <<m>> \o ascending(S \ {m})

ListingOf(S, times) ==
  LET order == ascending(S)
  IN  [j \in 1..Len(order) |->
         [key |-> AllKeys[order[j]],
          last_modified |-> times[order[j]],
          size |-> ObjectSizes[order[j]]]]

Buckets == { ListingOf(S, times) : S \in KeySets, times \in [1..Len(AllKeys) -> 1..MaxTime] }

InitCommon ==
  /\ bucket \in Buckets
  /\ bucket0 = bucket
  /\ listing = [p \in Procs |-> <<>>]
  /\ deployments = [p \in Procs |-> <<>>]
  /\ idx = [p \in Procs |-> 1]
  /\ totalSize = [p \in Procs |-> 0]
  /\ trace = [p \in Procs |-> <<>>]
  /\ report = [p \in Procs |-> NoReport]

\* One invocation of the script.
Init ==
  /\ InitCommon
  /\ \E a \in [object_name : ObjectNames, keep_count : KeepCounts, dry_run : BOOLEAN] :
       args = [p \in Procs |-> a]
  /\ pc = [p \in Procs |-> IF p = 1 THEN "start" ELSE "off"]

\* Two invocations with the same --object-name and --keep-count, neither a
\* dry run, started against the same bucket.
InitConcurrent ==
  /\ InitCommon
  /\ \E a \in [object_name : ObjectNames, keep_count : KeepCounts, dry_run : {FALSE}] :
       args = [p \in Procs |-> a]
  /\ pc = [p \in Procs |-> "start"]

(***************************************************************************)
(* Actions                                                                 *)
(***************************************************************************)

\* Lines 115-116: the keep-count check of the script body.  (The credential
\* checks of lines 111-114 come before it; they read nothing of this state.)
Validate(p) ==
  /\ pc[p] = "start"
  /\ pc' = [pc EXCEPT ![p] = IF args[p].keep_count < -1 THEN "configError" ELSE "list"]
  /\ UNCHANGED <<bucket, bucket0, args, listing, deployments, idx, totalSize, trace, report>>

\* Line 126: the one full listing and the selection.
GetDeployments(p) ==
  /\ pc[p] = "list"
  /\ LET got == getDeployments(bucket, args[p].object_name, args[p].keep_count)
     IN  /\ listing' = [listing EXCEPT ![p] = bucket]
         /\ deployments' = [deployments EXCEPT ![p] = got.targetDeployments]
         /\ pc' = [pc EXCEPT ![p] = IF got.raised THEN "noMatch" ELSE "loop"]
  /\ idx' = [idx EXCEPT ![p] = 1]
  /\ totalSize' = [totalSize EXCEPT ![p] = 0]
  /\ UNCHANGED <<bucket, bucket0, args, trace, report>>

\* Lines 86-95: the prefix of the next marker and its size lookup.
SizeLookup(p) ==
  /\ pc[p] = "loop"
  /\ idx[p] <= Len(deployments[p])
  /\ LET prefix == tlObjectPrefix(deployments[p][idx[p]].key)
     IN  /\ totalSize' = [totalSize EXCEPT ![p] = @ + getPrefixSize(bucket, prefix)]
         /\ trace' = [trace EXCEPT ![p] = Append(@, [op |-> "size", n |-> idx[p], prefix |-> prefix])]
  /\ IF deleteFollows(args[p].dry_run)
     THEN pc' = [pc EXCEPT ![p] = "delete"] /\ idx' = idx
     ELSE pc' = pc /\ idx' = [idx EXCEPT ![p] = @ + 1]
  /\ UNCHANGED <<bucket, bucket0, args, listing, deployments, report>>

\* Line 97: the bulk delete under the prefix.
Delete(p) ==
  /\ pc[p] = "delete"
  /\ LET prefix == tlObjectPrefix(deployments[p][idx[p]].key)
     IN  /\ bucket' = deleteUnderPrefix(bucket, prefix)
         /\ trace' = [trace EXCEPT ![p] = Append(@, [op |-> "delete", n |-> idx[p], prefix |-> prefix])]
  /\ idx' = [idx EXCEPT ![p] = @ + 1]
  /\ pc' = [pc EXCEPT ![p] = "loop"]
  /\ UNCHANGED <<bucket0, args, listing, deployments, totalSize, report>>

\* Lines 100-102: the summary.
Report(p) ==
  /\ pc[p] = "loop"
  /\ idx[p] > Len(deployments[p])
  /\ report' = [report EXCEPT ![p] =
                  [printed |-> TRUE,
                   prefixCount |-> Len(deployments[p]),
                   totalSize |-> totalSize[p],
                   dryRunBanner |-> args[p].dry_run]]
  /\ pc' = [pc EXCEPT ![p] = "done"]
  /\ UNCHANGED <<bucket, bucket0, args, listing, deployments, idx, totalSize, trace>>

Next ==
  \E p \in Procs :
    \/ Validate(p)
    \/ GetDeployments(p)
    \/ SizeLookup(p)
    \/ Delete(p)
    \/ Report(p)

Spec == Init /\ [][Next]_vars

SpecConcurrent == InitConcurrent /\ [][Next]_vars


(***************************************************************************)
(* Vocabulary of the properties.  They speak about invocation 1, the only  *)
(* one of Spec.                                                            *)
(***************************************************************************)
Range(seq) == { seq[j] : j \in 1..Len(seq) }

\* getDeployments has returned to p / has raised in p.
Returned(p) == pc[p] \in {"loop", "delete", "done"}
Raised(p)   == pc[p] = "noMatch"
Finished(p) == pc[p] \in {"done", "noMatch", "configError"}

\* The objects of p's listing whose key contains --object-name.
Matching(p) == { obj \in Range(listing[p]) : Contains(args[p].object_name, obj.key) }
Selected(p) == Range(deployments[p])
Retained(p) == Matching(p) \ Selected(p)

\* The objects of the initial bucket whose key contains --object-name.
Matching0(p) == { obj \in Range(bucket0) : Contains(args[p].object_name, obj.key) }

Min(a, b) == IF a <= b THEN a ELSE b
Max(a, b) == IF a >= b THEN a ELSE b

\* The position of an object in a listing (keys are unique in a bucket).
Pos(seq, obj) == CHOOSE j \in 1..Len(seq) : seq[j] = obj

DeleteCalls(p) == { n \in 1..Len(trace[p]) : trace[p][n].op = "delete" }
SizeCalls(p)   == { n \in 1..Len(trace[p]) : trace[p][n].op = "size" }

\* The loop of the actions computes what deleteDeployments computes, when
\* nobody else writes to the bucket.
LoopAgreesWithDeleteDeployments ==
  pc[1] = "done" =>
    LET r == deleteDeployments(listing[1], deployments[1], args[1].dry_run)
    IN  /\ bucket = r.bucket
        /\ report[1].prefixCount = r.prefixCount
        /\ report[1].totalSize = r.totalSize

(***************************************************************************)
(* C1: for every keepCount >= 0, getDeployments retains exactly the        *)
(* keepCount matching objects with the latest lastModified (all of them    *)
(* when there are fewer) and returns the older ones: every returned object *)
(* is a matching object no newer than any retained one.                    *)
(* The code keeps the OLDEST keepCount instead: TLC refutes this formula.  *)
(***************************************************************************)
C1_RetainsNewest ==
  (Returned(1) /\ args[1].keep_count >= 0) =>
    /\ Selected(1) \subseteq Matching(1)
    /\ Cardinality(Retained(1)) = Min(args[1].keep_count, Cardinality(Matching(1)))
    /\ \A s \in Selected(1) : \A r \in Retained(1) :
         s.last_modified <= r.last_modified

(***************************************************************************)
(* C2: in a dry run no delete call is issued and the bucket stays what it  *)
(* was, while each selected marker still gets its one size lookup.         *)
(***************************************************************************)
C2_DryRunDeletesNothing ==
  args[1].dry_run =>
    /\ bucket = bucket0
    /\ DeleteCalls(1) = {}
    /\ pc[1] = "done" =>
         /\ Len(trace[1]) = Len(deployments[1])
         /\ \A n \in 1..Len(trace[1]) :
              trace[1][n] = [op |-> "size", n |-> n,
                             prefix |-> tlObjectPrefix(deployments[1][n].key)]

C2_Witness ==
  /\ args[1].dry_run
  /\ pc[1] = "done"
  /\ Len(deployments[1]) >= 2
  /\ Cardinality(SizeCalls(1)) = Len(deployments[1])
  /\ report[1].dryRunBanner
  /\ bucket = bucket0

(***************************************************************************)
(* C3: the report of a finished run (total size and deployment count)      *)
(* equals the report deleteDeployments gives in the other mode (dry run    *)
(* for a real run, real run for a dry run) on the same bucket and the same *)
(* selected list.  TLC refutes it: when two selected markers share a       *)
(* prefix, or one's prefix starts the other's, the real run finds the      *)
(* objects gone at the second lookup and the dry run counts them twice.    *)
(* (Stated for keepCount >= 0, so that the refutation does not rest on the *)
(* selection made with keepCount = -1.)                                    *)
(***************************************************************************)
C3_DryRunReportsSameAsRealRun ==
  (pc[1] = "done" /\ args[1].keep_count >= 0) =>
    LET other == deleteDeployments(listing[1], deployments[1], ~args[1].dry_run)
    IN  /\ report[1].prefixCount = other.prefixCount
        /\ report[1].totalSize = other.totalSize

(***************************************************************************)
(* C4: when no key of the bucket contains --object-name, getDeployments    *)
(* raises for every keepCount, and the run stops at the listing: no size   *)
(* lookup, no delete, no report, and the bucket is unchanged.              *)
(***************************************************************************)
C4_NoMatchStopsRun ==
  Matching0(1) = {} =>
    /\ \A k \in KeepCounts : getDeployments(bucket0, args[1].object_name, k).raised
    /\ pc[1] \in {"start", "configError", "list", "noMatch"}
    /\ trace[1] = <<>>
    /\ ~report[1].printed
    /\ bucket = bucket0

C4_Witness ==
  /\ Raised(1)
  /\ Matching0(1) = {}
  /\ Len(bucket0) = MaxObjects
  /\ args[1].keep_count = 0
  /\ ~args[1].dry_run

(***************************************************************************)
(* C5, as claimed: whenever fewer than keepCount objects match (zero       *)
(* matches included), getDeployments returns the empty sequence and the    *)
(* run deletes nothing.  TLC refutes it on a bucket without a match, where *)
(* getDeployments raises instead of returning.                             *)
(***************************************************************************)
C5_FewerMatchesReturnsEmpty ==
  (Cardinality(Matching0(1)) < args[1].keep_count /\ pc[1] \notin {"start", "list"}) =>
    /\ Returned(1)
    /\ deployments[1] = <<>>
    /\ bucket = bucket0

(***************************************************************************)
(* C5, amended: with at least one and fewer than keepCount matching        *)
(* objects getDeployments returns the empty sequence; with no matching     *)
(* object it raises the no-match error; in both cases the run deletes      *)
(* nothing.                                                                *)
(***************************************************************************)
C5_FewerMatchesDeletesNothing ==
  (Cardinality(Matching0(1)) < args[1].keep_count /\ pc[1] \notin {"start", "list"}) =>
    /\ Cardinality(Matching0(1)) >= 1 => (Returned(1) /\ deployments[1] = <<>>)
    /\ Cardinality(Matching0(1)) = 0 => Raised(1)
    /\ DeleteCalls(1) = {}
    /\ bucket = bucket0

C5_Witness ==
  /\ pc[1] = "done"
  /\ ~args[1].dry_run
  /\ Cardinality(Matching0(1)) = 2
  /\ args[1].keep_count = 3
  /\ deployments[1] = <<>>
  /\ bucket = bucket0

(***************************************************************************)
(* C6: when getDeployments returns with keepCount >= 0, it returns         *)
(* max(0, matchCount - keepCount) distinct objects, all of them matching;  *)
(* with keepCount = 0 it returns every matching object.                    *)
(***************************************************************************)
C6_SelectionLength ==
  (Returned(1) /\ args[1].keep_count >= 0) =>
    /\ Cardinality(Matching(1)) >= 1
    /\ Len(deployments[1]) = Max(0, Cardinality(Matching(1)) - args[1].keep_count)
    /\ Cardinality(Selected(1)) = Len(deployments[1])
    /\ Selected(1) \subseteq Matching(1)
    /\ args[1].keep_count = 0 => Selected(1) = Matching(1)

C6_Witness ==
  /\ Returned(1)
  /\ args[1].keep_count = 1
  /\ Cardinality(Matching(1)) = 2
  /\ Len(deployments[1]) = 1
  /\ Range(listing[1]) # Matching(1)

(***************************************************************************)
(* C7: keepCount = -1 passes the validation, and with it getDeployments    *)
(* selects nothing.  The validation half holds; TLC refutes the other: the *)
(* code selects every matching object, as with keepCount = 0.              *)
(***************************************************************************)
C7_MinusOneKeepsEverything ==
  args[1].keep_count = -1 =>
    /\ pc[1] # "configError"
    /\ Returned(1) => deployments[1] = <<>>

(***************************************************************************)
(* C8: the returned sequence is in ascending lastModified order, objects   *)
(* with the same lastModified in their listing order; and the storage      *)
(* calls of the loop are, marker by marker in that order, the size lookup  *)
(* of the marker's prefix followed (unless dry run) by its delete.         *)
(***************************************************************************)
C8_AscendingOrderAndCallOrder ==
  /\ \A a, b \in 1..Len(deployments[1]) :
       a < b =>
         /\ deployments[1][a].last_modified <= deployments[1][b].last_modified
         /\ deployments[1][a].last_modified = deployments[1][b].last_modified =>
              Pos(listing[1], deployments[1][a]) < Pos(listing[1], deployments[1][b])
  /\ \A n \in 1..Len(trace[1]) :
       IF args[1].dry_run
       THEN trace[1][n] = [op |-> "size", n |-> n,
                           prefix |-> tlObjectPrefix(deployments[1][n].key)]
       ELSE LET m == (n + 1) \div 2
            IN  trace[1][n] = [op |-> IF n % 2 = 1 THEN "size" ELSE "delete",
                               n |-> m,
                               prefix |-> tlObjectPrefix(deployments[1][m].key)]
  /\ pc[1] = "done" =>
       Len(trace[1]) = Len(deployments[1]) * (IF args[1].dry_run THEN 1 ELSE 2)

C8_Witness ==
  /\ pc[1] = "done"
  /\ ~args[1].dry_run
  /\ Len(deployments[1]) = 3
  /\ Len(trace[1]) = 6
  /\ deployments[1][1].last_modified = deployments[1][2].last_modified
  /\ deployments[1][2].last_modified < deployments[1][3].last_modified

(***************************************************************************)
(* C9, as claimed: running two non-dry-run invocations concurrently with   *)
(* the same --object-name and --keep-count is not safe: there are a bucket *)
(* and an interleaving of the two invocations' listings and deletes after  *)
(* which the surviving objects are not those a single invocation leaves on *)
(* that bucket.  TLC refutes it: no bucket and no interleaving do that.    *)
(***************************************************************************)
C9_SomeInterleavingDiverges ==
  \E objects \in Buckets : \E objectName \in ObjectNames : \E keepCount \in KeepCounts :
    \E left \in concurrentMainLeaves(objects, objectName, keepCount) :
      left # mainLeaves(objects, objectName, keepCount, FALSE)

(***************************************************************************)
(* C9, amended: two non-dry-run invocations with the same --object-name    *)
(* and --keep-count race, but not on what survives.  In every interleaving *)
(* each invocation selects only markers that a single invocation selects   *)
(* on the initial bucket, and the bucket left when both have ended is the  *)
(* bucket a single invocation leaves.  (A selection is made once, at the   *)
(* listing, so it is read when both have ended.  The first conjunct ties   *)
(* concurrentMainLeaves, of which the refuted statement above speaks, to   *)
(* the actions: on the bucket the invocations start from it yields the one *)
(* bucket the actions end with.)  What the race changes is the selection   *)
(* of the invocation that lists later and the total size an invocation     *)
(* reports: C9_Witness is a run where both differ.                         *)
(***************************************************************************)
C9_ConcurrentRunsLeaveSameBucket ==
  LET objectName == args[1].object_name
      keepCount  == args[1].keep_count
  IN  /\ (\A p \in Procs : pc[p] = "start") =>
           concurrentMainLeaves(bucket, objectName, keepCount)
             = { mainLeaves(bucket, objectName, keepCount, FALSE) }
      /\ (\A p \in Procs : Finished(p)) =>
           /\ bucket = mainLeaves(bucket0, objectName, keepCount, FALSE)
           /\ \A p \in Procs :
                pc[p] = "done" =>
                  Selected(p) \subseteq
                    Range(getDeployments(bucket0, objectName, keepCount).targetDeployments)

\* Invocation p took its listing between the other's deletes.
ListedBetweenDeletes(p) ==
  /\ listing[p] # bucket0
  /\ listing[p] # bucket
  /\ pc[p] = "done"

\* Both invocations are done; 2 listed between the deletes of 1 and selected
\* less than 1 did; 1, which listed the initial bucket, reports another total
\* than it does when it runs alone, and 2 another total than 1.
C9_Witness ==
  /\ \A p \in Procs : pc[p] = "done"
  /\ ListedBetweenDeletes(2)
  /\ listing[1] = bucket0
  /\ args[1].keep_count = 1
  /\ deployments[2] # <<>>
  /\ deployments[2] # deployments[1]
  /\ report[2].totalSize # report[1].totalSize
  /\ report[1].totalSize # deleteDeployments(bucket0, deployments[1], FALSE).totalSize

(***************************************************************************)
(* C10: a real run deletes only objects of selected deployments: an object *)
(* of the initial bucket whose deployment prefix (its key up to the first  *)
(* "/") is the deployment prefix of no selected marker is still in the     *)
(* bucket when the run is done.  TLC refutes it: the delete takes every    *)
(* key that starts with the prefix, so deleting "a" takes ab/..., and the  *)
(* empty prefix of a key starting with "/" takes the whole bucket.         *)
(* (Stated for keepCount >= 0, so that the refutation does not rest on the *)
(* selection made with keepCount = -1.)                                    *)
(***************************************************************************)
C10_OnlySelectedDeploymentsDeleted ==
  (pc[1] = "done" /\ ~args[1].dry_run /\ args[1].keep_count >= 0) =>
    \A obj \in Range(bucket0) :
      (\A m \in Selected(1) : tlObjectPrefix(obj.key) # tlObjectPrefix(m.key))
        => obj \in Range(bucket)

=============================================================================
